---------------------------- MODULE Spec2Model ----------------------------
(***************************************************************************)
(* Model of rdb-autoresize: the process started by main() (src/main.go)    *)
(* and the three provider operations of AutoResizer (src/rdb.go).          *)
(*                                                                         *)
(* Sizes are counted in GB (units.GB = 10^9 bytes), so diskSizeIncrement   *)
(* is 5.  Go's uint64/int64 are modelled by words of WordBits bits: the    *)
(* conversions int64(x), uint64(x) and the unsigned addition wrap modulo   *)
(* 2^WordBits exactly as the Go ones wrap modulo 2^64.                     *)
(* float64 values are the integers 0..100 and the value NaN; every         *)
(* comparison with NaN is false, as in Go.                                 *)
(***************************************************************************)
EXTENDS Integers, Sequences, FiniteSets, TLC

(***************************************************************************)
(* Bounds of the model.                                                    *)
(***************************************************************************)
\* width of the machine word standing for Go's 64-bit integers
WordBits == 5
\* smallest and largest volume size (GB) the provider supports; a resize to a
\* size above the largest is refused by the provider
MinVolumeSize == 2
MaxVolumeSize == 9
\* largest number of time series / of points in a metrics response
MaxSeries == 2
MaxPoints == 2

(***************************************************************************)
(* Program constants.                                                      *)
(***************************************************************************)
\* diskSizeIncrement = uint64(5 * units.GB), in GB
diskSizeIncrement == 5

\* strconv.ParseFloat's not-a-number result
NaN == -1

UintMod == 2 ^ WordBits
IntMax  == 2 ^ (WordBits - 1) - 1
IntMin  == 0 - 2 ^ (WordBits - 1)

\* uint64(x) for an int64 x
ToUint(x) == IF x < 0 THEN x + UintMod ELSE x
\* int64(x) for a uint64 x
ToInt(x) == IF x > IntMax THEN x - UintMod ELSE x
\* x + y on uint64
UAdd(x, y) == (x + y) % UintMod

\* float64 comparisons: false as soon as one side is NaN
FGt(a, b) == a # NaN /\ b # NaN /\ a > b
FGe(a, b) == a # NaN /\ b # NaN /\ a >= b
FLt(a, b) == a # NaN /\ b # NaN /\ a < b

(***************************************************************************)
(* The provider's instance (rdb.Instance): status, volume type and size.   *)
(***************************************************************************)
InstanceStatusReady    == "ready"
InstanceStatusDiskFull == "disk_full"
InstanceStatusBackuping == "backuping"
VolumeTypeBssd == "bssd"
VolumeTypeLssd == "lssd"

Statuses    == {InstanceStatusReady, InstanceStatusDiskFull, InstanceStatusBackuping}
VolumeTypes == {VolumeTypeBssd, VolumeTypeLssd}

\* the value of a descriptor variable that holds no descriptor
NoInstance == [status |-> "none", type |-> "none", size |-> 0]
\* the value of a number variable that holds nothing
None == 0 - 2
\* the value of metrics when no answer is held
NoMetrics == [err |-> FALSE, nSeries |-> -1, points |-> <<>>]

(***************************************************************************)
(* Inputs: the flags and the provider's answers.                            *)
(***************************************************************************)
TriggerInputs == {"abc", "NaN", "79", "80", "90", "100"}
LimitInputs   == {"abc", "0GB", "8GB", "10000000000GB"}
Samples       == {80, 90, 100}

\* strconv.ParseFloat(s, 64) on the trigger inputs
ParseFloat(s) ==
    CASE s = "NaN" -> [err |-> FALSE, val |-> NaN]
      [] s = "79"  -> [err |-> FALSE, val |-> 79]
      [] s = "80"  -> [err |-> FALSE, val |-> 80]
      [] s = "90"  -> [err |-> FALSE, val |-> 90]
      [] s = "100" -> [err |-> FALSE, val |-> 100]
      [] OTHER     -> [err |-> TRUE,  val |-> 0]

\* units.FromHumanSize(s) on the limit inputs, in GB.  A size above the
\* int64 range is converted from float64 with int64(size), whose result
\* depends on the build: the smallest or the largest int64.
FromHumanSize(s) ==
    CASE s = "0GB"  -> {[err |-> FALSE, val |-> 0]}
      [] s = "8GB"  -> {[err |-> FALSE, val |-> 8]}
      [] s = "10000000000GB" -> {[err |-> FALSE, val |-> IntMin],
                                 [err |-> FALSE, val |-> IntMax]}
      [] OTHER      -> {[err |-> TRUE, val |-> -1]}


\* the sizes (GB) the provider reports for the volume
VolumeSizes == MinVolumeSize..MaxVolumeSize

\* the provider's answers to GetInstanceMetrics: the number of time series
\* and the points of Timeseries[0] (the only series the program reads)
PointSeqs == UNION {[1..n -> Samples] : n \in 0..MaxPoints}
MetricsResponses ==
    {[err |-> TRUE, nSeries |-> 0, points |-> <<>>]} \cup
    {[err |-> FALSE, nSeries |-> 0, points |-> <<>>]} \cup
    [err : {FALSE}, nSeries : 1..MaxSeries, points : PointSeqs]

(***************************************************************************)
(* The decisions of the code, one operator per condition.                  *)
(***************************************************************************)
\* main.go:62  triggerPercent >= 100 || triggerPercent < 80
TriggerOutOfRange(tp) == FGe(tp, 100) \/ FLt(tp, 80)

\* main.go:71  volumeSizeLimit == 0
LimitIsZero(limit) == limit = 0

\* how a provider call fails: the provider answers with an error status, or
\* the transport fails (connection, DNS, deadline) and there is no response
ProviderFailures == {"error answer", "no response"}

\* the transports makeAutoResizer gives the client (main.go:83-88)
DefaultTransport == "DefaultTransport"
LoggingTransport == "loggingTransport"

\* part_000:13-14  loggingTransport.RoundTrip hands the response of
\* http.DefaultTransport.RoundTrip to httputil.DumpResponse, which
\* dereferences it: a nil response is a run-time panic
RoundTripPanics(tr, failure) == tr = LoggingTransport /\ failure = "no response"

\* parseOptions() (main.go:52-76) on the trigger flag and on the result lim
\* of units.FromHumanSize for the limit flag
parseOptions(tpFlag, lim) ==
    LET f == ParseFloat(tpFlag) IN
    IF f.err THEN [err |-> "invalid trigger percentage", triggerPercent |-> 0, volumeSizeLimit |-> 0]
    ELSE IF TriggerOutOfRange(f.val)
         THEN [err |-> "trigger percent must be between 80 and 100", triggerPercent |-> 0, volumeSizeLimit |-> 0]
    ELSE IF lim.err
         THEN [err |-> "invalid volume size limit", triggerPercent |-> 0, volumeSizeLimit |-> 0]
    ELSE IF LimitIsZero(lim.val)
         THEN [err |-> "limit is ZERO, no resize can happen", triggerPercent |-> 0, volumeSizeLimit |-> 0]
    ELSE [err |-> "", triggerPercent |-> f.val, volumeSizeLimit |-> lim.val]

\* a volume type test that rejects no volume type the provider has
UnsupportedVolumeTypeLax(i) == i.type # VolumeTypeBssd /\ i.type # VolumeTypeLssd

\* main.go:139  instance.Volume.Type != rdb.VolumeTypeBssd
UnsupportedVolumeType(i) == i.type # VolumeTypeBssd

\* a pre-check that lets a volume exactly at the limit through
SizeOverLimit(i, limit) == ToInt(i.size) > limit

\* main.go:142  int64(instance.Volume.Size) >= volumeSizeLimit
SizeAtOrOverLimit(i, limit) == ToInt(i.size) >= limit

\* a threshold test that fires at the trigger itself
OverTriggerOrEqual(u, tp) == FGe(u, tp)

\* main.go:169  v > triggerPercent
OverTrigger(u, tp) == FGt(u, tp)

\* a target size that doubles the volume
TargetSizeDouble(i) == UAdd(i.size, i.size)

\* a target size of two increments
TargetSizeTwice(i) == UAdd(UAdd(i.size, diskSizeIncrement), diskSizeIncrement)

\* main.go:199  targetSize := uint64(instance.Volume.Size) + diskSizeIncrement
TargetSize(i) == UAdd(i.size, diskSizeIncrement)

\* a limit test on the current size in place of the target size
CurrentOverLimit(target, limit) == target - diskSizeIncrement > ToUint(limit)

\* main.go:200  targetSize > uint64(volumeSizeLimit)
TargetOverLimit(target, limit) == target > ToUint(limit)

\* a status test that takes an instance being backed up for a ready one
NotInReadyStateLax(i) ==
    /\ i.status # InstanceStatusReady
    /\ i.status # InstanceStatusDiskFull
    /\ i.status # InstanceStatusBackuping

\* rdb.go:37  Status != Ready && Status != DiskFull
NotInReadyState(i) ==
    i.status # InstanceStatusReady /\ i.status # InstanceStatusDiskFull

\* rdb.go:57  len(Timeseries) != 1 && len(Timeseries[0].Points) != 1
\* The right operand indexes Timeseries[0]: it panics when there is no series.
MalformedTestPanics(resp) == resp.nSeries # 1 /\ resp.nSeries = 0
MalformedOutput(resp) == resp.nSeries # 1 /\ Len(resp.points) # 1

\* AutoResizer.GetDiskUsagePercent (rdb.go:47-61)
GetDiskUsagePercent(resp) ==
    IF resp.err THEN [kind |-> "err", err |-> "provider", val |-> 0]
    ELSE IF MalformedTestPanics(resp)
         THEN [kind |-> "panic", err |-> "index out of range", val |-> 0]
    ELSE IF MalformedOutput(resp)
         THEN [kind |-> "err", err |-> "malformed output", val |-> 0]
    ELSE IF Len(resp.points) = 0   \* rdb.go:60  Timeseries[0].Points[0]
         THEN [kind |-> "panic", err |-> "index out of range", val |-> 0]
    ELSE [kind |-> "value", err |-> "", val |-> resp.points[1]]


(***************************************************************************)
(* State.                                                                  *)
(*   flagTriggerPct, flagVolumeSizeLimit  the two flags (main.go:19-20)    *)
(*   flagDebug       the -debug flag (main.go:22)                          *)
(*   transport       the http transport of the provider client, set by    *)
(*                   makeAutoResizer (main.go:83-88); "" before            *)
(*   pc              where main() stands                                   *)
(*   exitCode        the exit status once pc = "exited" (2: a panic)       *)
(*   triggerPercent, volumeSizeLimit  main's configuration (main.go:100)   *)
(*   inst            the instance as the provider holds it                 *)
(*   metrics         the provider's answer to GetInstanceMetrics, a local  *)
(*                   of GetDiskUsagePercent (rdb.go:49): kept until the    *)
(*                   next step of the process                              *)
(*   v               the usage sample of the cycle (main.go:157)           *)
(*   preInstance     the descriptor the pre-checks fetched (main.go:123),  *)
(*                   a local of the pre-check closure: kept only when the  *)
(*                   process ends there                                    *)
(*   instance        the descriptor the cycle fetched (main.go:177)        *)
(*   rvInstance      the descriptor ResizeVolume fetched (rdb.go:33)       *)
(*   targetSize      main.go:199                                           *)
(*   calls           the provider calls made since the cycle began         *)
(*   requests        the newSize of every UpgradeInstance request issued   *)
(*                   since the cycle began                                 *)
(*   lastLog         the last record logged at level Info or above since   *)
(*                   the cycle began                                       *)
(*   lastErr         the error of that record, "" if it carries none       *)
(***************************************************************************)
VARIABLES flagTriggerPct, flagVolumeSizeLimit, flagDebug, transport,
          pc, exitCode,
          triggerPercent, volumeSizeLimit, inst, metrics,
          v, instance, rvInstance, targetSize, preInstance,
          calls, requests, lastLog, lastErr

vars == <<flagTriggerPct, flagVolumeSizeLimit, flagDebug, transport,
          pc, exitCode,
          triggerPercent, volumeSizeLimit, inst, metrics,
          v, instance, rvInstance, targetSize, preInstance,
          calls, requests, lastLog, lastErr>>

flags  == <<flagTriggerPct, flagVolumeSizeLimit, flagDebug>>
config == <<triggerPercent, volumeSizeLimit>>
locals == <<v, instance, rvInstance, targetSize>>

Instances == [status : Statuses, type : VolumeTypes, size : VolumeSizes]

Init ==
    /\ flagTriggerPct \in TriggerInputs
    /\ flagVolumeSizeLimit \in LimitInputs
    /\ flagDebug \in BOOLEAN
    /\ transport = ""
    /\ pc = "start"
    /\ exitCode = None
    /\ triggerPercent = None
    /\ volumeSizeLimit = 0
    /\ inst \in Instances
    /\ metrics = NoMetrics
    /\ v = None
    /\ preInstance = NoInstance
    /\ instance = NoInstance
    /\ rvInstance = NoInstance
    /\ targetSize = 0
    /\ calls = <<>>
    /\ requests = <<>>
    /\ lastLog = ""
    /\ lastErr = ""

\* a loop whose target size is kept from one cycle to the next
TickKeepsTarget ==
    /\ pc = "tick"
    /\ pc' = "sample"
    /\ metrics' = NoMetrics
    /\ v' = None
    /\ instance' = NoInstance
    /\ rvInstance' = NoInstance
    /\ calls' = <<>>
    /\ requests' = <<>>
    /\ lastLog' = ""
    /\ lastErr' = ""
    /\ UNCHANGED <<flagTriggerPct, flagVolumeSizeLimit, flagDebug, transport,
                   triggerPercent,
                   volumeSizeLimit, targetSize, inst, preInstance, exitCode>>

\* slog.Error(msg, err) followed by os.Exit(1)
Fatal(msg, err) ==
    /\ pc' = "exited"
    /\ exitCode' = 1
    /\ lastLog' = msg
    /\ lastErr' = err

\* a run-time panic of the main goroutine: the process ends with status 2
Panic(err) ==
    /\ pc' = "exited"
    /\ exitCode' = 2
    /\ lastLog' = "panic"
    /\ lastErr' = err

\* slog.Error(msg, err) followed by continue: the loop waits for the ticker
Continue(msg, err) ==
    /\ pc' = "tick"
    /\ exitCode' = exitCode
    /\ lastLog' = msg
    /\ lastErr' = err

\* main.go:99-110
ParseOptions ==
    /\ pc = "start"
    /\ \E lim \in FromHumanSize(flagVolumeSizeLimit) :
         LET r == parseOptions(flagTriggerPct, lim) IN
         IF r.err # ""
         THEN /\ Fatal("error parsing options", r.err)
              /\ UNCHANGED config
         ELSE /\ triggerPercent' = r.triggerPercent
              /\ volumeSizeLimit' = r.volumeSizeLimit
              /\ pc' = "makeAutoResizer"
              /\ lastLog' = "rdb autoresizer started"
              /\ UNCHANGED <<exitCode, lastErr>>
    /\ UNCHANGED <<flags, transport, inst, metrics, locals, preInstance, calls,
                   requests>>

\* main.go:78-93, 112-117: with -debug the client gets the logging
\* transport; scw.NewClient succeeds or fails
MakeAutoResizer ==
    /\ pc = "makeAutoResizer"
    /\ \E ok \in BOOLEAN :
         IF ok
         THEN /\ pc' = "preflight"
              /\ transport' = IF flagDebug THEN LoggingTransport
                                            ELSE DefaultTransport
              /\ UNCHANGED <<exitCode, lastLog, lastErr>>
         ELSE /\ Fatal("error creating api client", "error creating api client")
              /\ UNCHANGED transport
    /\ UNCHANGED <<flags, config, inst, metrics, locals, preInstance, calls,
                   requests>>

\* main.go:119-153: the pre-checks, then the loop body starts at once
Preflight ==
    /\ pc = "preflight"
    /\ calls' = <<>>
    /\ \E ok \in BOOLEAN, f \in ProviderFailures :
         IF ~ok /\ RoundTripPanics(transport, f)
         THEN /\ Panic("nil pointer dereference")
              /\ UNCHANGED preInstance
         ELSE IF ~ok
         THEN /\ Fatal("error during instance pre-checks", "provider")
              /\ UNCHANGED preInstance
         ELSE /\ preInstance' = IF UnsupportedVolumeType(inst)
                                   \/ SizeAtOrOverLimit(inst, volumeSizeLimit)
                                THEN inst ELSE NoInstance
              /\ IF UnsupportedVolumeType(inst)
                 THEN Fatal("error during instance pre-checks", "unsupported volume type")
                 ELSE IF SizeAtOrOverLimit(inst, volumeSizeLimit)
                 THEN Fatal("error during instance pre-checks",
                            "current volume size is larger than the defined limit")
                 ELSE /\ pc' = "sample"
                      /\ lastLog' = "rdb instance found"
                      /\ UNCHANGED <<exitCode, lastErr>>
    /\ UNCHANGED <<flags, config, transport, inst, metrics, locals, requests>>


\* main.go:156-174: the usage sample and the threshold test
Sample ==
    /\ pc = "sample"
    /\ calls' = Append(calls, "GetInstanceMetrics")
    /\ \E resp \in MetricsResponses, f \in ProviderFailures :
         LET r == GetDiskUsagePercent(resp) IN
         /\ metrics' = resp
         /\
            CASE resp.err /\ RoundTripPanics(transport, f) ->
                   /\ Panic("nil pointer dereference")
                   /\ UNCHANGED v
              [] ~(resp.err /\ RoundTripPanics(transport, f))
                 /\ r.kind = "panic" ->
                   /\ Panic(r.err)
                   /\ UNCHANGED v
              [] ~(resp.err /\ RoundTripPanics(transport, f))
                 /\ r.kind = "err" ->
                   /\ Continue("error getting current disk usage", r.err)
                   /\ UNCHANGED v
              [] OTHER ->
                   /\ v' = r.val
                   /\ IF OverTrigger(r.val, triggerPercent)
                      THEN /\ pc' = "fetch"
                           /\ lastLog' = "disk space is over max usage target"
                           /\ lastErr' = ""
                           /\ UNCHANGED exitCode
                      ELSE Continue("current disk usage", "")
    /\ UNCHANGED <<flags, config, transport, inst, instance, rvInstance, targetSize,
                   preInstance, requests>>

\* main.go:176-217: the cycle's descriptor, the volume type check, the
\* target size and the limit check
FetchInstance ==
    /\ pc = "fetch"
    /\ calls' = Append(calls, "GetInstance")
    /\ metrics' = NoMetrics
    /\ \E ok \in BOOLEAN, f \in ProviderFailures :
         IF ~ok /\ RoundTripPanics(transport, f)
         THEN /\ Panic("nil pointer dereference")
              /\ UNCHANGED <<instance, targetSize>>
         ELSE IF ~ok
         THEN /\ Continue("error getting instance details", "provider")
              /\ UNCHANGED <<instance, targetSize>>
         ELSE /\ instance' = inst
              /\ IF UnsupportedVolumeType(inst)
                 THEN /\ Fatal("volume type is non-resizeable", "")
                      /\ UNCHANGED targetSize
                 ELSE /\ targetSize' = TargetSize(inst)
                      /\ IF TargetOverLimit(TargetSize(inst), volumeSizeLimit)
                         THEN Fatal("new volume size is over limit", "")
                         ELSE /\ pc' = "resize"
                              /\ lastLog' = "triggering resize"
                              /\ lastErr' = ""
                              /\ UNCHANGED exitCode
    /\ UNCHANGED <<flags, config, transport, inst, v, rvInstance, preInstance, requests>>

\* rdb.go:33-39: ResizeVolume fetches the instance again and tests its status
ResizeVolumeGet ==
    /\ pc = "resize"
    /\ calls' = Append(calls, "GetInstance")
    /\ \E ok \in BOOLEAN, f \in ProviderFailures :
         IF ~ok /\ RoundTripPanics(transport, f)
         THEN /\ Panic("nil pointer dereference")
              /\ UNCHANGED rvInstance
         ELSE IF ~ok
         THEN /\ Continue("unable to resize instance", "provider")
              /\ UNCHANGED rvInstance
         ELSE /\ rvInstance' = inst
              /\ IF NotInReadyState(inst)
                 THEN Continue("unable to resize instance",
                               "instance is not in a ready state")
                 ELSE /\ pc' = "upgrade"
                      /\ UNCHANGED <<exitCode, lastLog, lastErr>>
    /\ UNCHANGED <<flags, config, transport, inst, metrics, v, instance, targetSize,
                   preInstance, requests>>

\* a resize that is sent again, in the same cycle, when the provider refuses it
UpgradeInstanceRetry ==
    /\ pc = "upgrade"
    /\ Len(requests) < 2
    /\ calls' = Append(calls, "UpgradeInstance")
    /\ requests' = Append(requests, targetSize)
    /\ \E ok \in BOOLEAN :
         IF ok /\ targetSize \in VolumeSizes
         THEN /\ inst' = [inst EXCEPT !.size = targetSize]
              /\ pc' = "tick"
              /\ UNCHANGED <<exitCode, lastLog, lastErr>>
         ELSE /\ pc' = IF Len(requests) = 0 THEN "upgrade" ELSE "tick"
              /\ lastLog' = "unable to resize instance"
              /\ lastErr' = "provider"
              /\ UNCHANGED <<inst, exitCode>>
    /\ UNCHANGED <<flags, config, transport, metrics, locals, preInstance>>

\* rdb.go:40-44 and main.go:222-228: the resize request; the provider applies
\* it (only to a size it supports) or answers with an error
UpgradeInstance ==
    /\ pc = "upgrade"
    /\ calls' = Append(calls, "UpgradeInstance")
    /\ requests' = Append(requests, targetSize)
    /\ \E ok \in BOOLEAN, f \in ProviderFailures :
         IF ok /\ targetSize \in VolumeSizes
         THEN /\ inst' = [inst EXCEPT !.size = targetSize]
              /\ pc' = "tick"
              /\ UNCHANGED <<exitCode, lastLog, lastErr>>
         ELSE IF RoundTripPanics(transport, f)
         THEN /\ Panic("nil pointer dereference")
              /\ UNCHANGED inst
         ELSE /\ Continue("unable to resize instance", "provider")
              /\ UNCHANGED inst
    /\ UNCHANGED <<flags, config, transport, metrics, locals, preInstance>>

\* a ticker that is awaited only after a cycle that logged no error
TickAfterSuccess ==
    /\ pc = "tick"
    /\ lastErr = ""
    /\ pc' = "sample"
    /\ metrics' = NoMetrics
    /\ v' = None
    /\ instance' = NoInstance
    /\ rvInstance' = NoInstance
    /\ targetSize' = 0
    /\ calls' = <<>>
    /\ requests' = <<>>
    /\ lastLog' = ""
    /\ lastErr' = ""
    /\ UNCHANGED <<flags, config, transport, inst, preInstance, exitCode>>

\* main.go:155: <-t.C, then the next iteration with fresh locals
Tick ==
    /\ pc = "tick"
    /\ pc' = "sample"
    /\ metrics' = NoMetrics
    /\ v' = None
    /\ instance' = NoInstance
    /\ rvInstance' = NoInstance
    /\ targetSize' = 0
    /\ calls' = <<>>
    /\ requests' = <<>>
    /\ lastLog' = ""
    /\ lastErr' = ""
    /\ UNCHANGED <<flags, config, transport, inst, preInstance, exitCode>>

(***************************************************************************)
(* The instance changes out of band while the process runs.                *)
(***************************************************************************)
Running == pc \in {"preflight", "sample", "fetch", "resize", "upgrade", "tick"}

OutOfBandStatus ==
    /\ Running
    /\ \E s \in Statuses \ {inst.status} : inst' = [inst EXCEPT !.status = s]
    /\ UNCHANGED <<flags, config, transport, metrics, locals, preInstance, pc, exitCode,
                   calls, requests, lastLog, lastErr>>

OutOfBandType ==
    /\ Running
    /\ \E t \in VolumeTypes \ {inst.type} : inst' = [inst EXCEPT !.type = t]
    /\ UNCHANGED <<flags, config, transport, metrics, locals, preInstance, pc, exitCode,
                   calls, requests, lastLog, lastErr>>

OutOfBandSize ==
    /\ Running
    /\ \E z \in VolumeSizes \ {inst.size} : inst' = [inst EXCEPT !.size = z]
    /\ UNCHANGED <<flags, config, transport, metrics, locals, preInstance, pc, exitCode,
                   calls, requests, lastLog, lastErr>>

Next ==
    \/ ParseOptions
    \/ MakeAutoResizer
    \/ Preflight
    \/ Sample
    \/ FetchInstance
    \/ ResizeVolumeGet
    \/ UpgradeInstance
    \/ Tick
    \/ OutOfBandStatus
    \/ OutOfBandType
    \/ OutOfBandSize

Spec == Init /\ [][Next]_vars

\* The process with an instance whose size nobody else changes: the size
\* changes only when the provider applies a request of UpgradeInstance.
NextOwnResizes ==
    \/ ParseOptions
    \/ MakeAutoResizer
    \/ Preflight
    \/ Sample
    \/ FetchInstance
    \/ ResizeVolumeGet
    \/ UpgradeInstance
    \/ Tick
    \/ OutOfBandStatus
    \/ OutOfBandType

SpecOwnResizes == Init /\ [][NextOwnResizes]_vars

\* The process alone, started on an instance whose volume size is any value
\* of the provider's unsigned size type (scw.Size is a uint64).
InstancesWide ==
    [status : Statuses, type : VolumeTypes, size : 0..(UintMod - 1)]

InitWide ==
    /\ flagTriggerPct \in TriggerInputs
    /\ flagVolumeSizeLimit \in LimitInputs
    /\ flagDebug \in BOOLEAN
    /\ transport = ""
    /\ pc = "start"
    /\ exitCode = None
    /\ triggerPercent = None
    /\ volumeSizeLimit = 0
    /\ inst \in InstancesWide
    /\ metrics = NoMetrics
    /\ v = None
    /\ preInstance = NoInstance
    /\ instance = NoInstance
    /\ rvInstance = NoInstance
    /\ targetSize = 0
    /\ calls = <<>>
    /\ requests = <<>>
    /\ lastLog = ""
    /\ lastErr = ""

NextWide ==
    \/ ParseOptions
    \/ MakeAutoResizer
    \/ Preflight
    \/ Sample
    \/ FetchInstance
    \/ ResizeVolumeGet
    \/ UpgradeInstance
    \/ Tick

SpecWide == InitWide /\ [][NextWide]_vars

\* Every provider call runs under context.WithTimeout(queryTimeout)
\* (main.go:121, 158, 178, 211), so each call step is taken in the end, and
\* the ticker (main.go:154) fires every loopInterval.
FairSpec ==
    /\ Spec
    /\ WF_vars(Sample)
    /\ WF_vars(FetchInstance)
    /\ WF_vars(ResizeVolumeGet)
    /\ WF_vars(UpgradeInstance)
    /\ WF_vars(Tick)


(***************************************************************************)
(* Properties.                                                             *)
(***************************************************************************)
EligibleStatuses == {InstanceStatusReady, InstanceStatusDiskFull}

\* the sample of the cycle is above the trigger
AboveTrigger == v # None /\ triggerPercent # NaN /\ v > triggerPercent

\* C1: a resize request is issued only in a cycle whose fetched descriptors
\* show a status of ready or disk_full (the status ResizeVolume read) and a
\* volume type of bssd (the type main read); with any other volume type no
\* request is issued, whatever the sample.
ResizeOnlyWhenEligible ==
    requests # <<>> =>
        /\ rvInstance # NoInstance
        /\ rvInstance.status \in EligibleStatuses
        /\ instance # NoInstance
        /\ instance.type = VolumeTypeBssd

\* a request was issued for a disk_full instance sampled at 100%
ResizeIssuedWitness ==
    /\ requests # <<>>
    /\ rvInstance.status = InstanceStatusDiskFull
    /\ v = 100

\* C2: every request issued asks for a size of at most volumeSizeLimit, and a
\* cycle whose fetched size plus the increment is above the limit issues no
\* request.
NeverAboveLimit ==
    /\ \A k \in 1..Len(requests) : requests[k] <= volumeSizeLimit
    /\ (instance # NoInstance /\ instance.size + diskSizeIncrement > volumeSizeLimit)
          => requests = <<>>

\* a cycle sampled at 100% with trigger 80 ended on the limit, with no request
OverLimitWitness ==
    /\ v = 100
    /\ triggerPercent = 80
    /\ instance # NoInstance
    /\ instance.size + diskSizeIncrement > volumeSizeLimit
    /\ lastLog = "new volume size is over limit"
    /\ requests = <<>>

\* C3: a cycle whose sample is at most the trigger makes the metrics call
\* and nothing else: no instance fetch, no request; it waits for the next tick.
BelowTriggerNoAction ==
    (v # None /\ triggerPercent # NaN /\ v <= triggerPercent) =>
        /\ pc = "tick"
        /\ calls = <<"GetInstanceMetrics">>
        /\ requests = <<>>
        /\ instance = NoInstance

\* a sample equal to the trigger
TieWitness ==
    /\ v # None
    /\ v = triggerPercent
    /\ pc = "tick"

\* C4: at the end of a cycle whose sample is above the trigger, whose
\* descriptor has type bssd and a size with size + increment <= limit, and
\* in which ResizeVolume read a status of ready or disk_full, exactly one
\* request has been issued, for size + increment.
ExactlyOneIncrement ==
    ( /\ pc = "tick"
      /\ AboveTrigger
      /\ instance # NoInstance
      /\ instance.type = VolumeTypeBssd
      /\ instance.size + diskSizeIncrement <= volumeSizeLimit
      /\ rvInstance # NoInstance
      /\ rvInstance.status \in EligibleStatuses )
    => requests = <<instance.size + diskSizeIncrement>>

\* sample 100 with trigger 80: one request, of one increment
OneIncrementWitness ==
    /\ pc = "tick"
    /\ v = 100
    /\ triggerPercent = 80
    /\ Len(requests) = 1
    /\ requests[1] = instance.size + diskSizeIncrement


\* C5: GetDiskUsagePercent yields a value only for exactly one series of
\* exactly one point; any other answer without a provider error is reported
\* as malformed output: no value, no request, the instance untouched, and
\* the loop waits for the next tick.
MalformedMetricRejected ==
    (metrics # NoMetrics /\ ~metrics.err
       /\ ~(metrics.nSeries = 1 /\ Len(metrics.points) = 1))
    => /\ v = None
       /\ lastErr = "malformed output"
       /\ pc = "tick"
       /\ requests = <<>>

\* C6: once the loop is entered no error ends the process: the process ends
\* only with one of the startup errors.
StartupErrors ==
    {"error parsing options", "error creating api client",
     "error during instance pre-checks"}

OnlyStartupErrorsExit == pc = "exited" => lastLog \in StartupErrors

\* C7: the pre-checks end the process with status 1, before any sample and
\* any request, when the volume type is not bssd or the size is at or above
\* the limit; the loop is entered only with type bssd and size < limit.
PreflightGate ==
    /\ [][(pc = "preflight" /\ pc' # "preflight") =>
            /\ (pc' = "sample" =>
                   inst.type = VolumeTypeBssd /\ inst.size < volumeSizeLimit)
            /\ (preInstance' # NoInstance
                  /\ (preInstance'.type # VolumeTypeBssd
                        \/ preInstance'.size >= volumeSizeLimit)) =>
                   (pc' = "exited" /\ exitCode' = 1)
            /\ (pc' = "exited" \/ pc' = "sample")]_vars
    /\ [](lastLog = "error during instance pre-checks" =>
            /\ pc = "exited"
            /\ exitCode = 1
            /\ calls = <<>>
            /\ requests = <<>>
            /\ v = None)

\* the pre-checks ended the process for a bssd volume exactly at the limit
PreflightAtLimitWitness ==
    /\ pc = "exited"
    /\ preInstance # NoInstance
    /\ preInstance.type = VolumeTypeBssd
    /\ preInstance.size = volumeSizeLimit
    /\ lastErr = "current volume size is larger than the defined limit"

\* C8 as stated: a cycle above the trigger whose provider calls all answered
\* and whose descriptors show no status of ready or disk_full ends with the
\* not-ready error, without a request, the process waiting for the next tick.
NotReadyAlwaysContinues ==
    ( /\ pc \in {"tick", "exited"}
      /\ AboveTrigger
      /\ instance # NoInstance
      /\ instance.status \notin EligibleStatuses
      /\ (Len(calls) >= 3 => rvInstance # NoInstance)
      /\ (rvInstance # NoInstance => rvInstance.status \notin EligibleStatuses) )
    => /\ pc = "tick"
       /\ lastErr = "instance is not in a ready state"
       /\ requests = <<>>

\* C8 amended: when the cycle's descriptor has type bssd and a size with
\* size + increment <= limit, and ResizeVolume reads a status that is
\* neither ready nor disk_full, the cycle ends with the not-ready error,
\* without a request, and the process waits for the next tick.
NotReadyContinues ==
    ( /\ AboveTrigger
      /\ instance # NoInstance
      /\ instance.type = VolumeTypeBssd
      /\ instance.size + diskSizeIncrement <= volumeSizeLimit
      /\ rvInstance # NoInstance
      /\ rvInstance.status \notin EligibleStatuses )
    => /\ pc = "tick"
       /\ exitCode = None
       /\ lastLog = "unable to resize instance"
       /\ lastErr = "instance is not in a ready state"
       /\ requests = <<>>
       /\ calls = <<"GetInstanceMetrics", "GetInstance", "GetInstance">>

\* ResizeVolume found the instance being backed up, at a sample of 100
NotReadyWitness ==
    /\ v = 100
    /\ rvInstance # NoInstance
    /\ rvInstance.status = InstanceStatusBackuping
    /\ lastErr = "instance is not in a ready state"
    /\ pc = "tick"

\* C9: parseOptions succeeds only with 80 <= triggerPercent < 100 and
\* volumeSizeLimit > 0.
ConfigValid ==
    triggerPercent # None =>
        /\ triggerPercent # NaN
        /\ 80 <= triggerPercent
        /\ triggerPercent < 100
        /\ volumeSizeLimit > 0

\* C10: a provider call of a cycle that failed, with an error answer or
\* with no response at all (connection, timeout), does not end the process:
\* the loop waits for the ticker, and unless the failed call is the resize
\* itself the cycle has issued no request.
ProviderFailureSurvived ==
    (calls # <<>> /\ lastErr \in {"provider", "nil pointer dereference"}) =>
        /\ pc = "tick"
        /\ exitCode = None
        /\ (lastLog # "unable to resize instance" => requests = <<>>)

\* C11: the provider calls of a cycle come in the order metrics, instance
\* (main), instance (ResizeVolume), upgrade; a request is issued only after
\* a sample above the trigger and both fetches of the same cycle; a cycle
\* issues at most one request; and the metrics call of the next cycle is
\* made only once the loop has come back from the resize to the ticker.
CycleOrder ==
    <<"GetInstanceMetrics", "GetInstance", "GetInstance", "UpgradeInstance">>

SequentialCycle ==
    /\ [](/\ Len(calls) <= Len(CycleOrder)
          /\ calls = SubSeq(CycleOrder, 1, Len(calls))
          /\ Len(requests) <= 1
          /\ (requests # <<>> =>
                /\ calls = CycleOrder
                /\ AboveTrigger
                /\ instance # NoInstance
                /\ rvInstance # NoInstance
                /\ pc \in {"tick", "exited"})
          /\ (Len(calls) >= 2 => AboveTrigger)
          /\ (Len(calls) >= 3 => instance # NoInstance)
          /\ (Len(calls) >= 4 => rvInstance # NoInstance))
    /\ [][(calls' # calls /\ calls' # <<>>
             /\ calls'[Len(calls')] = "GetInstanceMetrics") =>
            (pc = "sample" /\ calls = <<>> /\ requests = <<>>)]_vars
    /\ [][(pc = "upgrade" /\ pc' # "upgrade") =>
            (pc' \in {"tick", "exited"} /\ Len(requests') = 1)]_vars

\* a cycle that went through the four calls in order
FullCycleWitness ==
    /\ calls = CycleOrder
    /\ Len(requests) = 1
    /\ pc = "tick"


\* C12: a resize is validated against one descriptor: when the request is
\* about to be issued or has been issued, the descriptor whose status was
\* tested shows the type that was tested and the size that gave the target
\* size.
OneDescriptorPerAttempt ==
    (pc = "upgrade" \/ requests # <<>>) =>
        /\ instance # NoInstance
        /\ rvInstance # NoInstance
        /\ rvInstance.type = instance.type
        /\ rvInstance.size = instance.size
        /\ rvInstance.type = VolumeTypeBssd
        /\ targetSize = rvInstance.size + diskSizeIncrement


InLoop == pc \in {"sample", "fetch", "resize", "upgrade", "tick"}

\* C13: no provider call and no wait holds the loop forever: as long as the
\* process is in the loop it comes again and again to the start of a cycle
\* and again and again leaves it with a call for a new usage sample, so a
\* cycle that ended at the ticker is followed by a new sample.
LoopIsLive ==
    /\ []<>(~InLoop \/ pc = "sample")
    /\ []<>(pc # "sample")

\* the loop waits for the ticker after a cycle that ended on an error
TickAfterErrorWitness ==
    /\ pc = "tick"
    /\ lastErr = "provider"
    /\ lastLog = "error getting current disk usage"


\* C14: once parseOptions has returned, no step changes the flags or the
\* configuration; and a cycle begins with none of the locals of an earlier
\* cycle (nor the pre-check descriptor), so what it decides comes from the
\* configuration and from what it fetches itself.
ParsedOk == triggerPercent # None

ConfigFrozenCyclesFresh ==
    /\ [][ParsedOk => (triggerPercent' = triggerPercent
                        /\ volumeSizeLimit' = volumeSizeLimit)]_vars
    /\ [][flagTriggerPct' = flagTriggerPct
            /\ flagVolumeSizeLimit' = flagVolumeSizeLimit
            /\ flagDebug' = flagDebug]_vars
    /\ [](pc = "sample" =>
            /\ v = None
            /\ instance = NoInstance
            /\ rvInstance = NoInstance
            /\ preInstance = NoInstance
            /\ targetSize = 0
            /\ metrics = NoMetrics
            /\ calls = <<>>
            /\ requests = <<>>)
    /\ [][(pc = "fetch" /\ pc' = "resize") =>
            /\ v' > triggerPercent
            /\ instance' = inst
            /\ targetSize' = inst.size + diskSizeIncrement
            /\ targetSize' <= volumeSizeLimit]_vars

\* a second cycle begins after a cycle that fetched a descriptor
SecondCycleWitness ==
    /\ pc = "sample"
    /\ lastLog = ""
    /\ instance = NoInstance
    /\ inst.size = MinVolumeSize + diskSizeIncrement


\* C15: with a size that changes only by the provider applying the
\* program's requests, once the pre-checks have passed the size is at most
\* volumeSizeLimit, and every change of it adds exactly diskSizeIncrement.
PreflightPassed ==
    \/ pc \in {"sample", "fetch", "resize", "upgrade", "tick"}
    \/ (pc = "exited" /\ calls # <<>>)

SizeBoundedAndStepwise ==
    /\ [](PreflightPassed =>
            (inst.size <= volumeSizeLimit /\ inst.size >= MinVolumeSize))
    /\ [][inst'.size # inst.size =>
            /\ inst'.size = inst.size + diskSizeIncrement
            /\ inst'.size <= volumeSizeLimit
            /\ requests' = <<inst'.size>>]_vars

\* the provider applied a request that brought the volume to the limit
GrownToLimitWitness ==
    /\ requests # <<>>
    /\ inst.size = requests[1]
    /\ inst.size = volumeSizeLimit
    /\ pc = "tick"


\* C16: for every volume size of the unsigned word, a size at or over
\* volumeSizeLimit does not pass the pre-checks, and no resize is requested
\* whose mathematical target, current size plus diskSizeIncrement, exceeds
\* volumeSizeLimit.
GuardsSound ==
    /\ (pc = "sample" /\ lastLog = "rdb instance found")
          => inst.size < volumeSizeLimit
    /\ requests # <<>>
          => instance.size + diskSizeIncrement <= volumeSizeLimit

=============================================================================
